---- MODULE Spec2Model ----
(***************************************************************************)
(* Model of galmon-osnma's main loop (galmon-osnma/src/main.rs) and of the *)
(* TESLA one-way function (src/tesla.rs) of galileo-osnma.                 *)
(*                                                                         *)
(* An Option<T> is a sequence of length at most one: <<>> is None and      *)
(* <<v>> is Some(v).  A Gst is a record [wn, tow].                         *)
(***************************************************************************)
EXTENDS Integers, Sequences, FiniteSets, TLC

VARIABLES
    current_subframe,     \* main.rs:204  Option<Gst>, the watermark
    last_tow_mod_30,      \* main.rs:205
    ced_and_status_data,  \* main.rs:203  [Svn -> Option<[u8; 69]>]
    timing_parameters,    \* main.rs:202  [Svn -> Option<[u8; 18]>]
    osnma,                \* main.rs:189  the authentication engine
    packet,               \* main.rs:207  the packet of the last loop iteration
    gst,                  \* main.rs:240  Option<Gst>: the Gst built for that packet
    calls,                \* the engine calls made for that packet, in order
    log,                  \* the log lines written for that packet, in order
    reached,              \* history: every value the watermark has had
    seen,                 \* history: Option<Gst>, the highest boundary of any word seen
    fresh,                \* history: the blocks that packet's poll found new
    trail,                \* history: the last two messages, the latest first (SpecSync)
    key,                  \* tesla.rs:10   the Key at the head of the derivation
    params,               \* tesla.rs:17   the ChainParameters
    overflow_checks,      \* whether the build checks integer overflow
    status,               \* "none" before a key is built, "ok", or "panic" once a call has aborted
    nderived,             \* the number of one_way_function calls made
    extract_args,         \* main.rs:48   the arguments of a call of an extraction function
    extract_value         \* main.rs:56   Option: what the call returned

vars == <<current_subframe, last_tow_mod_30, ced_and_status_data,
          timing_parameters, osnma, packet, gst, calls, log, reached, seen,
          fresh, trail, key, params, overflow_checks, status, nderived,
          extract_args, extract_value>>

mainVars == <<current_subframe, last_tow_mod_30, ced_and_status_data,
              timing_parameters, osnma, packet, gst, calls, log, reached, seen,
              fresh, trail>>

chainVars == <<key, params, overflow_checks, status, nderived>>

extractVars == <<extract_args, extract_value>>

-----------------------------------------------------------------------------
(* Time frames *)

secs_in_week == 604800

\* Wn is a 16-bit unsigned integer; the sum of two of them keeps that width.
WnModulus == 65536

WnAdd(a, b) == (a + b) % WnModulus

GstNew(wn, tow) == [wn |-> wn, tow |-> tow]

\* The 30-second frame that holds g.
gst_subframe(g) == [wn |-> g.wn, tow |-> g.tow - (g.tow % 30)]

\* The derived order of Gst: by week, then by time of week.
GstLt(a, b) == a.wn < b.wn \/ (a.wn = b.wn /\ a.tow < b.tow)

GstMax(a, b) == IF GstLt(a, b) THEN b ELSE a

-----------------------------------------------------------------------------
(* The steps of the loop body *)

\* tow = inav.gnss_tow % secs_in_week
NormalizeTow(gnss_tow) == gnss_tow % secs_in_week

\* NormalizeWn without the carry of the weeks held in gnss_tow.
NormalizeWn_NoCarry(gnss_wn, gnss_tow) == gnss_wn

\* wn = Wn(inav.gnss_wn) + Wn(inav.gnss_tow / secs_in_week)
NormalizeWn(gnss_wn, gnss_tow) == WnAdd(gnss_wn, gnss_tow \div secs_in_week)

\* NeedsTowFix with the threshold off by one.
NeedsTowFix_Above19(tow, last) == tow % 30 = 15 /\ last > 19

\* if tow % 30 == 15 && last_tow_mod_30 >= 19
NeedsTowFix(tow, last) == tow % 30 = 15 /\ last >= 19

\* FixTow with the TOW moved to the start of the next frame.
FixTow_NextFrame(tow, last) == IF NeedsTowFix(tow, last) THEN tow + (30 - 15) ELSE tow

\* tow += 29 - 15
FixTow(tow, last) == IF NeedsTowFix(tow, last) THEN tow + (29 - 15) ELSE tow

\* LastTowMod30 taken from the start of the frame.
LastTowMod30_OfFrame(tow) == (tow - (tow % 30)) % 30

\* last_tow_mod_30 = tow % 30
LastTowMod30(tow) == tow % 30

\* IsPreviousSubframe by the time of week alone, the week left out.
IsPreviousSubframe_TowOnly(current, g) ==
    /\ current # <<>>
    /\ gst_subframe(g).tow < current[1].tow

\* IsPreviousSubframe with the check left out.
IsPreviousSubframe_Never(current, g) == FALSE

\* if let Some(current) = current_subframe { if current > gst.gst_subframe()
IsPreviousSubframe(current, g) ==
    /\ current # <<>>
    /\ GstLt(gst_subframe(g), current[1])

\* Advance that leaves no watermark.
Advance_Never(g) == <<>>

\* Advance to the Gst of the word instead of its subframe.
Advance_ToGst(g) == <<g>>

\* current_subframe = Some(gst.gst_subframe())
Advance(g) == <<gst_subframe(g)>>

\* InavBand with every other band taken for E5B.
InavBand_DefaultE5B(sigid) == IF sigid = 1 THEN <<"E1B">> ELSE <<"E5B">>

\* let band = match sigid { 1 => E1B, 5 => E5B, _ => continue }
InavBand(sigid) ==
    CASE sigid = 1 -> <<"E1B">>
      [] sigid = 5 -> <<"E5B">>
      [] OTHER -> <<>>

\* let inav_word_type = inav_word[0] >> 2
InavWordType(inav_word) == inav_word[1] \div 4

\* IsDummy on the first byte, the shift left out.
IsDummy_NoShift(inav_word) == inav_word[1] = 63

\* if inav_word_type == 63
IsDummy(inav_word) == InavWordType(inav_word) = 63

-----------------------------------------------------------------------------
(* The authenticated blocks and their snapshots *)

\* The satellites of Svn::iter(); the model keeps two of them.
Svns == {1, 2}

CedBytes == 69

TimingBytes == 18

\* The length in bits of the data of a CED and status block and of a timing
\* parameters block, as the engine returns them.
CedBits == 549

TimingBits == 141

\* The data of the block the engine holds under the pattern number pat: bit i
\* (counted from 0) is set exactly when pat divides i.
BlockData(pat, nbits) == [i \in 1..nbits |-> IF (i - 1) % pat = 0 THEN 1 ELSE 0]

RECURSIVE Pow2(_)
Pow2(n) == IF n = 0 THEN 1 ELSE 2 * Pow2(n - 1)

\* let mut data_bytes = [0u8; N]; a[..b.len()].copy_from_bitslice(b): the bits
\* of b, most significant bit of each byte first, then zeros.
Materialize(b, nbytes) ==
    [j \in 1..nbytes |->
        LET bit(k) == IF 8 * (j - 1) + k + 1 <= Len(b) THEN b[8 * (j - 1) + k + 1] ELSE 0
        IN  128 * bit(0) + 64 * bit(1) + 32 * bit(2) + 16 * bit(3)
            + 8 * bit(4) + 4 * bit(5) + 2 * bit(6) + bit(7)]

\* IsCached with any snapshot taken for the same data.
IsCached_AnySnapshot(cache, data_bytes) == cache # <<>>

\* cache.map(|d| d == data_bytes).unwrap_or(false)
IsCached(cache, data_bytes) == cache # <<>> /\ cache[1] = data_bytes

\* ShiftIn on an accumulator of 16 bits.
ShiftIn_LowHalf(value, bit) == [hi |-> 0, lo |-> (2 * value.lo + bit) % 65536]

\* A u32 is kept as its two 16-bit halves, [hi, lo], of value 65536 * hi + lo.
\* (value << 1) | bit, in 32 bits
ShiftIn(value, bit) ==
    [hi |-> (2 * value.hi + value.lo \div 32768) % 65536,
     lo |-> (2 * value.lo + bit) % 65536]

\* The body of for i in start..=end { .. } for one i, value being the u32 so
\* far; bits are counted from 0.
ExtractStep(data_bytes, i, value) ==
    LET byte_index == i \div 8
        bit_index == i % 8
        bit == (data_bytes[byte_index + 1] \div Pow2(7 - bit_index)) % 2
    IN  ShiftIn(value, bit)

\* The iterations from .. to of the loop, in order: those of the first half
\* of the range, then those of the second.
RECURSIVE ExtractLoop(_, _, _, _)
ExtractLoop(data_bytes, from, to, value) ==
    IF from > to \/ value.lo < 0 THEN value
    ELSE IF from = to THEN ExtractStep(data_bytes, from, value)
    ELSE LET mid == (from + to) \div 2
         IN  ExtractLoop(data_bytes, mid + 1, to,
                         ExtractLoop(data_bytes, from, mid, value))

\* let mut value: u32 = 0; for i in start..=end { .. }; value
extract_bits_range(data_bytes, start, end) ==
    ExtractLoop(data_bytes, start, end, [hi |-> 0, lo |-> 0])

extract_all_bits(d) ==
    [T0E |-> extract_bits_range(d, 11, 24), M0 |-> extract_bits_range(d, 25, 56),
     E |-> extract_bits_range(d, 57, 88), AQRTA |-> extract_bits_range(d, 89, 120),
     OMEGA0 |-> extract_bits_range(d, 131, 162), I0 |-> extract_bits_range(d, 163, 194),
     OMEGA |-> extract_bits_range(d, 195, 226), IDOT |-> extract_bits_range(d, 227, 240),
     OMEGADOT |-> extract_bits_range(d, 251, 274), DELTAN |-> extract_bits_range(d, 275, 290),
     CUC |-> extract_bits_range(d, 291, 306), CUS |-> extract_bits_range(d, 307, 322),
     CRC |-> extract_bits_range(d, 323, 338), CRS |-> extract_bits_range(d, 339, 354),
     CIC |-> extract_bits_range(d, 379, 394), CIS |-> extract_bits_range(d, 395, 410),
     T0C |-> extract_bits_range(d, 411, 424), AF0 |-> extract_bits_range(d, 425, 455),
     AF1 |-> extract_bits_range(d, 456, 476), AF2 |-> extract_bits_range(d, 477, 482),
     AI0 |-> extract_bits_range(d, 483, 493), AI1 |-> extract_bits_range(d, 494, 504),
     AI2 |-> extract_bits_range(d, 505, 518), REGION1 |-> extract_bits_range(d, 519, 519),
     REGION2 |-> extract_bits_range(d, 520, 520), REGION3 |-> extract_bits_range(d, 521, 521),
     REGION4 |-> extract_bits_range(d, 522, 522), REGION5 |-> extract_bits_range(d, 523, 523),
     BGDA |-> extract_bits_range(d, 524, 533), BGDB |-> extract_bits_range(d, 534, 543),
     E5BHS |-> extract_bits_range(d, 544, 545), E1BHS |-> extract_bits_range(d, 546, 547),
     E5BDVS |-> extract_bits_range(d, 548, 548), E1BDVS |-> extract_bits_range(d, 549, 549)]

\* The (start, end) of each field of extract_all_bits.
Descriptors ==
    [T0E |-> <<11, 24>>, M0 |-> <<25, 56>>, E |-> <<57, 88>>, AQRTA |-> <<89, 120>>,
     OMEGA0 |-> <<131, 162>>, I0 |-> <<163, 194>>, OMEGA |-> <<195, 226>>,
     IDOT |-> <<227, 240>>, OMEGADOT |-> <<251, 274>>, DELTAN |-> <<275, 290>>,
     CUC |-> <<291, 306>>, CUS |-> <<307, 322>>, CRC |-> <<323, 338>>,
     CRS |-> <<339, 354>>, CIC |-> <<379, 394>>, CIS |-> <<395, 410>>,
     T0C |-> <<411, 424>>, AF0 |-> <<425, 455>>, AF1 |-> <<456, 476>>,
     AF2 |-> <<477, 482>>, AI0 |-> <<483, 493>>, AI1 |-> <<494, 504>>,
     AI2 |-> <<505, 518>>, REGION1 |-> <<519, 519>>, REGION2 |-> <<520, 520>>,
     REGION3 |-> <<521, 521>>, REGION4 |-> <<522, 522>>, REGION5 |-> <<523, 523>>,
     BGDA |-> <<524, 533>>, BGDB |-> <<534, 543>>, E5BHS |-> <<544, 545>>,
     E1BHS |-> <<546, 547>>, E5BDVS |-> <<548, 548>>, E1BDVS |-> <<549, 549>>]

-----------------------------------------------------------------------------
(* The authentication engine: Osnma::from_merkle_tree / from_pubkey,        *)
(* feed_inav, feed_osnma, get_ced_and_status, get_timing_parameters.        *)
(* It holds, per satellite, the block it has authenticated, if any; a block *)
(* is [pat, authbits] and its data is BlockData(pat, _).  What a feed makes *)
(* of the blocks is the engine's business: a feed may replace the block of  *)
(* one satellite and kind by any block or by none.                          *)

OsnmaNew == [ced |-> [s \in Svns |-> <<>>], timing |-> [s \in Svns |-> <<>>]]

Opt(S) == {<<>>} \cup {<<b>> : b \in S}

\* The engines a feed can leave behind, CedB and TimB being the blocks the
\* engine can come to authenticate.
Feed(o, CedB, TimB) ==
    {o} \cup {[o EXCEPT !.ced[s] = c] : s \in Svns, c \in Opt(CedB)}
        \cup {[o EXCEPT !.timing[s] = t] : s \in Svns, t \in Opt(TimB)}

get_ced_and_status(o, svn) == o.ced[svn]

get_timing_parameters(o, svn) == o.timing[svn]

-----------------------------------------------------------------------------
(* The poll of all satellites after a push: main.rs:289-334 *)

\* LogLine with every line written at debug severity.
LogLine_AllDebug(level, what, svn, authbits, data) ==
    [level |-> "debug", what |-> what, svn |-> svn, authbits |-> authbits, data |-> data]

\* A line of the log: its severity, what it reports, and the values it shows.
LogLine(level, what, svn, authbits, data) ==
    [level |-> level, what |-> what, svn |-> svn, authbits |-> authbits, data |-> data]

\* The pattern numbers of the blocks of the model.
Pats == {2, 3}

\* The 69-byte and 18-byte buffers of the blocks, and the fields extracted from
\* the former, computed once per pattern.
CedBufferOf == [pat \in Pats |-> Materialize(BlockData(pat, CedBits), CedBytes)]

TimingBufferOf == [pat \in Pats |-> Materialize(BlockData(pat, TimingBits), TimingBytes)]

FieldsOf == [pat \in Pats |-> extract_all_bits(CedBufferOf[pat])]

\* The buffer the block of satellite svn is materialized into, if there is one.
CedBuffer(o, svn) ==
    LET data == get_ced_and_status(o, svn)
    IN  IF data = <<>> THEN <<>> ELSE <<CedBufferOf[data[1].pat]>>

TimingBuffer(o, svn) ==
    LET data == get_timing_parameters(o, svn)
    IN  IF data = <<>> THEN <<>> ELSE <<TimingBufferOf[data[1].pat]>>

\* Whether the poll reports the buffer buf against the cached snapshot.
IsNew(cache, buf) == buf # <<>> /\ ~IsCached(cache, buf[1])

\* Snapshot with the update of the cache left out.
Snapshot_NoUpdate(cache, buf) == cache

\* The snapshot after the poll.
Snapshot(cache, buf) == IF IsNew(cache, buf) THEN buf ELSE cache

\* The lines the poll of satellite svn writes, CED and status first.
PollLines(o, cedc, timc, svn) ==
    (IF IsNew(cedc[svn], CedBuffer(o, svn))
     THEN <<LogLine("info", "ced", svn, get_ced_and_status(o, svn)[1].authbits,
                    <<FieldsOf[get_ced_and_status(o, svn)[1].pat]>>)>>
     ELSE <<>>)
    \o
    (IF IsNew(timc[svn], TimingBuffer(o, svn))
     THEN <<LogLine("info", "timing", svn, get_timing_parameters(o, svn)[1].authbits, <<>>)>>
     ELSE <<>>)

\* for svn in Svn::iter(): the lines of satellites 1 .. n, in that order
RECURSIVE PollLog(_, _, _, _)
PollLog(o, cedc, timc, n) ==
    IF n = 0 THEN <<>>
    ELSE PollLog(o, cedc, timc, n - 1) \o
         (IF n \in Svns THEN PollLines(o, cedc, timc, n) ELSE <<>>)

-----------------------------------------------------------------------------
(* The packets read from the transport *)

\* A packet that holds a Galileo INAV word; sigid and reserved1 are Options.
Inav(wn, tow, sv, sigid, word, reserved1) ==
    [gi |-> <<[gnss_wn |-> wn, gnss_tow |-> tow, gnss_sv |-> sv, sigid |-> sigid,
               contents |-> word, reserved1 |-> reserved1]>>]

\* A packet that holds no Galileo INAV word.
Other == [gi |-> <<>>]

\* Raw times of week: 15, 18 and 19 mod 30 in the first frame of the week, a
\* word of the second frame, one of the last frame, and two values past the
\* end of the week.
Tows == {15, 18, 19, 45, 604785, 604801, 604815}

\* None, E1B, E5B and a band that is no INAV band.
Sigids == {<<>>, <<1>>, <<5>>, <<2>>}

\* A word of type 15 and a word of type 63 (a dummy message); the model keeps
\* the first two bytes of a word.
DataWord == <<63, 170>>

DummyWord == <<252, 170>>

Words == {DataWord, DummyWord}

\* An authentication payload; the model keeps its first byte.
Payload == <<85>>

\* The packets of the main specification: every time of week from both
\* satellites on E1B, and, a week later, every band with either word.  gnss_wn
\* and gnss_sv are values Wn::try_from and Svn::try_from accept (the loop
\* unwraps both).
Packets ==
    {Other}
    \cup {Inav(1176, tow, sv, <<1>>, DataWord, <<>>) : tow \in Tows, sv \in Svns}
    \cup {Inav(1177, tow, 1, sigid, word, <<Payload>>) :
            tow \in {15, 45}, sigid \in Sigids, word \in Words}

\* The packets of the specification of the poll: words of one frame, without
\* and with a payload, and a dummy word.
PollPackets ==
    {Inav(1176, 15, 1, <<1>>, DataWord, <<>>),
     Inav(1176, 15, 2, <<1>>, DataWord, <<Payload>>),
     Inav(1176, 15, 1, <<5>>, DummyWord, <<Payload>>)}

-----------------------------------------------------------------------------
(* The TESLA chain key: src/tesla.rs *)

MAX_KEY_BYTES == 32

Zeros(n) == [i \in 1..n |-> 0]

\* The first n elements of s, and those from position n + 1 (counted from 1).
Take(s, n) == SubSeq(s, 1, n)

Drop(s, n) == SubSeq(s, n + 1, Len(s))

RECURSIVE SumRange(_, _, _)
SumRange(s, from, to) ==
    IF from > to THEN 0
    ELSE IF from = to THEN s[from]
    ELSE LET mid == (from + to) \div 2
         IN  SumRange(s, from, mid) + SumRange(s, mid + 1, to)

SumSeq(s) == SumRange(s, 1, Len(s))

\* check_gst with the assertion left out.
check_gst_Any(g) == TRUE

\* assert!(gst.tow % 30 == 0)
check_gst(g) == g.tow % 30 = 0

\* Key::from_slice: the slice, then zeros, in a buffer of MAX_KEY_BYTES bytes.
from_slice(slice, g) ==
    [data |-> slice \o Zeros(MAX_KEY_BYTES - Len(slice)),
     size |-> 8 * Len(slice),
     gst_subframe |-> g]

\* Key::from_slice panics on a failed check_gst and on a slice longer than the
\* buffer (data[..size] is out of range).
from_slice_panics(slice, g) == ~check_gst(g) \/ Len(slice) > MAX_KEY_BYTES

\* Key::from_bitslice: the bits, most significant bit of each byte first, then
\* zeros; size is the number of bits.
from_bitslice(slice, g) ==
    [data |-> Materialize(slice, MAX_KEY_BYTES),
     size |-> Len(slice),
     gst_subframe |-> g]

\* Key::from_bitslice panics on a failed check_gst, on a length that is not a
\* multiple of 8 and on a bit slice longer than the buffer.
from_bitslice_panics(slice, g) ==
    ~check_gst(g) \/ Len(slice) % 8 # 0 \/ Len(slice) > 8 * MAX_KEY_BYTES

\* self.gst_subframe.wn - 1 on an unsigned week: below zero the subtraction
\* panics in a build that checks overflow and wraps around in one that does not.
PreviousWn(wn) == IF wn = 0 THEN WnModulus - 1 ELSE wn - 1

PreviousWnOverflows(wn) == wn = 0

\* let previous_subframe = Gst { wn: .., tow: .. }
previous_subframe(g) ==
    [wn |-> IF g.tow = 0 THEN PreviousWn(g.wn) ELSE g.wn,
     tow |-> IF g.tow = 0 THEN 7 * 24 * 3600 - 30 ELSE g.tow - 30]

\* gst_bits[0..12].store_be(wn); gst_bits[12..32].store_be(tow): the low 12
\* bits of the week and the low 20 bits of the time of week, in four bytes.
GstBytes(g) ==
    LET wn12 == g.wn % 4096
        tow20 == g.tow % 1048576
    IN  <<wn12 \div 16,
          (wn12 % 16) * 16 + tow20 \div 65536,
          (tow20 \div 256) % 256,
          tow20 % 256>>

\* HashInput with the frame of the key itself in the place of the previous one.
HashInput_OwnFrame(k, p) ==
    Take(k.data, k.size \div 8) \o GstBytes(k.gst_subframe) \o Drop(p.alpha, 2)

\* The buffer that is hashed: the key, GST (32 bits) and alpha (48 bits).  alpha
\* is kept as the eight bytes of alpha.to_be_bytes().
HashInput(k, p) ==
    Take(k.data, k.size \div 8) \o GstBytes(previous_subframe(k.gst_subframe))
        \o Drop(p.alpha, 2)

\* SHA-256 (FIPS 180-4), the function of sha2::Sha256.  A 32-bit word is a
\* sequence of 32 bits, most significant first, and, for the additions, its
\* two 16-bit halves [hi, lo].

\* The powers of two up to 2^16.
P2 == [k \in 0..16 |-> Pow2(k)]

\* A function on 1 .. n as the sequence of its values.
AsSeq(f) == f \o <<>>

\* The value e, the value v being computed before it: TLC computes a
\* definition where it is first used, and a chain of uses nests deeply.
After(v, e) == IF v = v THEN e ELSE e

WordOf(h) ==
    After(h, AsSeq([i \in 1..32 |-> IF i <= 16 THEN (h.hi \div P2[16 - i]) % 2
                           ELSE (h.lo \div P2[32 - i]) % 2]))

\* The value of the 16 bits of w that follow position n.
Half(w, n) ==
    (((32768 * w[n + 1] + 16384 * w[n + 2]) + (8192 * w[n + 3] + 4096 * w[n + 4]))
     + ((2048 * w[n + 5] + 1024 * w[n + 6]) + (512 * w[n + 7] + 256 * w[n + 8])))
    + (((128 * w[n + 9] + 64 * w[n + 10]) + (32 * w[n + 11] + 16 * w[n + 12]))
       + ((8 * w[n + 13] + 4 * w[n + 14]) + (2 * w[n + 15] + w[n + 16])))

HalvesOfWord(w) == After(w, [hi |-> Half(w, 0), lo |-> Half(w, 16)])

\* The sum mod 2^32 of two words given as halves.
AddHalves(x, y) ==
    [hi |-> (x.hi + y.hi + (x.lo + y.lo) \div 65536) % 65536,
     lo |-> (x.lo + y.lo) % 65536]

Rotr(w, n) == AsSeq([i \in 1..32 |-> w[((i - 1 - n) % 32) + 1]])

Shr(w, n) == AsSeq([i \in 1..32 |-> IF i <= n THEN 0 ELSE w[i - n]])

Xor3(a, b, c) == After(<<a, b, c>>, AsSeq([i \in 1..32 |-> (a[i] + b[i] + c[i]) % 2]))

Ch(x, y, z) == AsSeq([i \in 1..32 |-> IF x[i] = 1 THEN y[i] ELSE z[i]])

Maj(x, y, z) == AsSeq([i \in 1..32 |-> IF x[i] + y[i] + z[i] >= 2 THEN 1 ELSE 0])

BigSigma0(x) == Xor3(Rotr(x, 2), Rotr(x, 13), Rotr(x, 22))

BigSigma1(x) == Xor3(Rotr(x, 6), Rotr(x, 11), Rotr(x, 25))

SmallSigma0(x) == Xor3(Rotr(x, 7), Rotr(x, 18), Shr(x, 3))

SmallSigma1(x) == Xor3(Rotr(x, 17), Rotr(x, 19), Shr(x, 10))

\* The round constants and the initial hash value, as <<hi, lo>>.
K256 ==
    <<<<17034, 12184>>, <<28983, 17553>>, <<46528, 64463>>, <<59829, 56229>>,
      <<14678, 49755>>, <<23025, 4593>>, <<37439, 33444>>, <<43804, 24277>>,
      <<55303, 43672>>, <<4739, 23297>>, <<9265, 34238>>, <<21772, 32195>>,
      <<29374, 23924>>, <<32990, 45566>>, <<39900, 1703>>, <<49563, 61812>>,
      <<58523, 27073>>, <<61374, 18310>>, <<4033, 40390>>, <<9228, 41420>>,
      <<11753, 11375>>, <<19060, 33962>>, <<23728, 43484>>, <<30457, 35034>>,
      <<38974, 20818>>, <<43057, 50797>>, <<45059, 10184>>, <<48985, 32711>>,
      <<50912, 3059>>, <<54695, 37191>>, <<1738, 25425>>, <<5161, 10599>>,
      <<10167, 2693>>, <<11803, 8504>>, <<19756, 28156>>, <<21304, 3347>>,
      <<25866, 29524>>, <<30314, 2747>>, <<33218, 51502>>, <<37490, 11397>>,
      <<41663, 59553>>, <<43034, 26187>>, <<49739, 35696>>, <<51052, 20899>>,
      <<53650, 59417>>, <<54937, 1572>>, <<62478, 13701>>, <<4202, 41072>>,
      <<6564, 49430>>, <<7735, 27656>>, <<10056, 30540>>, <<13488, 48309>>,
      <<14620, 3251>>, <<20184, 43594>>, <<23452, 51791>>, <<26670, 28659>>,
      <<29839, 33518>>, <<30885, 25455>>, <<33992, 30740>>, <<36039, 520>>,
      <<37054, 65530>>, <<42064, 27883>>, <<48889, 41975>>, <<50801, 30962>>>>

H256 ==
    <<<<27145, 58983>>, <<47975, 44677>>, <<15470, 62322>>, <<42319, 62778>>,
      <<20750, 21119>>, <<39685, 26764>>, <<8067, 55723>>, <<23520, 52505>>>>

\* The message with its padding: the byte 128, zeros up to 56 mod 64 bytes,
\* and the length in bits in eight bytes (the model's messages are shorter
\* than 8192 bytes, so the length takes the last two).
Sha256Pad(m) ==
    LET nzeros == (55 - Len(m)) % 64
    IN  m \o <<128>> \o [i \in 1..(nzeros + 6) |-> 0]
          \o <<(8 * Len(m)) \div 256, (8 * Len(m)) % 256>>

\* The words 1 .. 16 of the message schedule of the block that starts after
\* byte off, and the schedule extended to 64 words.
BlockWords(pm, off) ==
    AsSeq([t \in 1..16 |->
             WordOf([hi |-> 256 * pm[off + 4 * t - 3] + pm[off + 4 * t - 2],
                     lo |-> 256 * pm[off + 4 * t - 1] + pm[off + 4 * t]])])

\* Word t of the message schedule, W holding the words before it.
ScheduleWord(W, t) ==
    LET s1 == SmallSigma1(W[t - 2])
        s0 == SmallSigma0(W[t - 15])
    IN  After(<<s1, s0>>,
              WordOf(AddHalves(AddHalves(HalvesOfWord(s1), HalvesOfWord(W[t - 7])),
                               AddHalves(HalvesOfWord(s0), HalvesOfWord(W[t - 16])))))

\* The schedule W extended by its words from .. to, W holding the words before
\* them.  The range is done in two halves, which keeps the evaluation shallow.
RECURSIVE Sha256Schedule(_, _, _)
Sha256Schedule(W, from, to) ==
    IF Len(W) # from - 1 THEN W
    ELSE IF from = to THEN Append(W, ScheduleWord(W, from))
    ELSE LET mid == (from + to) \div 2
         IN  Sha256Schedule(Sha256Schedule(W, from, mid), mid + 1, to)

\* Round t on the working variables st = <<a, b, c, d, e, f, g, h>>.
Sha256Round(st, W, t) ==
    LET S1 == HalvesOfWord(BigSigma1(st[5]))
        ch == HalvesOfWord(Ch(st[5], st[6], st[7]))
        S0 == HalvesOfWord(BigSigma0(st[1]))
        maj == HalvesOfWord(Maj(st[1], st[2], st[3]))
        T1 == AddHalves(AddHalves(AddHalves(HalvesOfWord(st[8]), S1),
                                  AddHalves(ch, [hi |-> K256[t][1], lo |-> K256[t][2]])),
                        HalvesOfWord(W[t]))
        T2 == AddHalves(S0, maj)
    IN  After(<<S1, ch, S0, maj>>,
              After(<<T1, T2>>,
                    <<WordOf(AddHalves(T1, T2)), st[1], st[2], st[3],
                      WordOf(AddHalves(HalvesOfWord(st[4]), T1)), st[5], st[6], st[7]>>))

\* Rounds from .. to, in two halves as well.
RECURSIVE Sha256Rounds(_, _, _, _)
Sha256Rounds(st, W, from, to) ==
    IF Len(st) # 8 THEN st
    ELSE IF from = to THEN Sha256Round(st, W, from)
    ELSE LET mid == (from + to) \div 2
         IN  Sha256Rounds(Sha256Rounds(st, W, from, mid), W, mid + 1, to)

\* The hash value after the blocks from byte off on; H is a sequence of eight
\* words as halves.
RECURSIVE Sha256Blocks(_, _, _)
Sha256Blocks(H, pm, off) ==
    IF off >= Len(pm) THEN H
    ELSE LET W == Sha256Schedule(BlockWords(pm, off), 17, 64)
             st == Sha256Rounds(AsSeq([i \in 1..8 |-> WordOf(H[i])]), W, 1, 64)
             H2 == AsSeq([i \in 1..8 |-> AddHalves(H[i], HalvesOfWord(st[i]))])
         IN  After(W, After(st, After(H2, Sha256Blocks(H2, pm, off + 64))))

\* hash.update(buffer); hash.finalize(): the 32 bytes of the digest.
Sha256Digest(buffer) ==
    LET pm == AsSeq(Sha256Pad(buffer))
        H == Sha256Blocks(AsSeq([i \in 1..8 |-> [hi |-> H256[i][1], lo |-> H256[i][2]]]),
                          pm, 0)
    IN  After(pm, After(H,
            AsSeq([j \in 1..32 |->
                     LET h == H[((j - 1) \div 4) + 1]
                         k == (j - 1) % 4
                     IN  IF k = 0 THEN h.hi \div 256
                         ELSE IF k = 1 THEN h.hi % 256
                         ELSE IF k = 2 THEN h.lo \div 256
                         ELSE h.lo % 256])))

\* The 32-byte digest of sha3::Sha3_256.  The model keeps in its place a
\* checksum of the buffer, which no digest of SHA-256 of the model equals.
Sha3_256Digest(buffer) ==
    LET sum == SumSeq(buffer)
    IN  After(sum, AsSeq([i \in 1..32 |-> (3 * sum + 11 * i + Len(buffer)) % 256]))

\* one_way_function_panics with the reserved hash function taken for SHA3-256.
one_way_function_panics_ReservedHashes(k, p, checks) ==
    checks /\ k.gst_subframe.tow = 0 /\ k.gst_subframe.wn = 0

\* Whether one_way_function(k, p) panics: on the reserved hash function, and,
\* in a build that checks overflow, on the week before week 0.
one_way_function_panics(k, p, checks) ==
    \/ p.hash = "Reserved"
    \/ (checks /\ k.gst_subframe.tow = 0 /\ PreviousWnOverflows(k.gst_subframe.wn))

\* one_way_function with the whole digest copied into the new key.
one_way_function_FullDigest(k, p) ==
    [data |-> IF p.hash = "Sha256" THEN Sha256Digest(HashInput(k, p))
              ELSE Sha3_256Digest(HashInput(k, p)),
     size |-> k.size,
     gst_subframe |-> previous_subframe(k.gst_subframe)]

\* The key one_way_function(k, p) returns when it does not panic.
one_way_function(k, p) ==
    LET size == k.size \div 8
        hash == IF p.hash = "Sha256" THEN Sha256Digest(HashInput(k, p))
                ELSE Sha3_256Digest(HashInput(k, p))
    IN  [data |-> Take(hash, size) \o Zeros(MAX_KEY_BYTES - size),
         size |-> k.size,
         gst_subframe |-> previous_subframe(k.gst_subframe)]

\* The keys and parameters of the model: the two keys of the test of tesla.rs
\* and a key of 32 bytes, anchored in the first and last frames of weeks 0, 1,
\* 1176 and 4095.
KeySlices ==
    {<<66, 180, 25, 218, 106, 218, 28, 10, 61, 111, 86, 165, 229, 220, 89, 167>>,
     <<149, 66, 170, 212, 122, 191, 57, 186, 254, 86, 104, 97, 175, 232, 128, 178>>,
     [i \in 1..32 |-> i]}

KeyWns == {0, 1, 1176, 4095}

KeyTows == {0, 30, 60, 120960, 604770}

ChainParams ==
    {[hash |-> h, alpha |-> <<0, 0, 37, 211, 150, 77, 163, 162>>] :
        h \in {"Sha256", "Sha3_256", "Reserved"}}

\* How many times the model applies one_way_function to a key.
MaxDerive == 2

ChainIdle ==
    /\ key = from_slice(<<>>, GstNew(0, 0))
    /\ params = [hash |-> "Sha256", alpha |-> Zeros(8)]
    /\ overflow_checks = TRUE
    /\ status = "ok"
    /\ nderived = 0

\* The subframe boundary of the (week, TOW) a packet carries, folded into one
\* week and before any correction.
WordBoundary(p) ==
    LET inav == p.gi[1]
    IN  [wn |-> inav.gnss_wn + inav.gnss_tow \div 604800,
         tow |-> (inav.gnss_tow % 604800) - ((inav.gnss_tow % 604800) % 30)]

-----------------------------------------------------------------------------
(* The main loop: main.rs:201-336 *)

MainInit ==
    /\ current_subframe = <<>>
    /\ last_tow_mod_30 = 0
    /\ ced_and_status_data = [s \in Svns |-> <<>>]
    /\ timing_parameters = [s \in Svns |-> <<>>]
    /\ osnma = OsnmaNew
    /\ packet = Other
    /\ gst = <<>>
    /\ calls = <<>>
    /\ log = <<>>
    /\ reached = {}
    /\ seen = <<>>
    /\ fresh = {}
    /\ trail = <<>>

ExtractIdle ==
    /\ extract_args = [op |-> "none"]
    /\ extract_value = <<>>

Init == MainInit /\ ChainIdle /\ ExtractIdle

Call(op, arg, svn, g, band) ==
    [op |-> op, arg |-> arg, svn |-> svn, gst |-> g, band |-> band]

\* Pushes with the payload fed before its word.
Pushes_PayloadFirst(inav, g, band) ==
    (IF inav.reserved1 = <<>> THEN <<>>
     ELSE <<Call("feed_osnma", inav.reserved1[1], inav.gnss_sv, g, <<>>)>>)
    \o <<Call("feed_inav", inav.contents, inav.gnss_sv, g, band)>>
    \o <<Call("poll", <<>>, 0, g, <<>>)>>

\* The engine calls of a word that passed the screens: feed_inav, feed_osnma
\* if the word has a payload, and then the poll of all satellites.
Pushes(inav, g, band) ==
    <<Call("feed_inav", inav.contents, inav.gnss_sv, g, band)>>
    \o (IF inav.reserved1 = <<>> THEN <<>>
        ELSE <<Call("feed_osnma", inav.reserved1[1], inav.gnss_sv, g, <<>>)>>)
    \o <<Call("poll", <<>>, 0, g, <<>>)>>

\* One iteration of the while loop on a packet of P, with an engine that can
\* come to authenticate the blocks CedB and TimB.
Iterate(P, CedB, TimB) ==
    \E p \in P :
        /\ UNCHANGED chainVars
        /\ UNCHANGED extractVars
        /\ packet' = p
        /\ IF p.gi = <<>> \/ p.gi[1].sigid = <<>>
           THEN /\ gst' = <<>>
                /\ calls' = <<>>
                /\ log' = <<>>
                /\ UNCHANGED <<current_subframe, last_tow_mod_30, ced_and_status_data,
                               timing_parameters, osnma, reached, seen>>
           ELSE LET inav == p.gi[1]
                    sigid == inav.sigid[1]
                    tow0 == NormalizeTow(inav.gnss_tow)
                    wn == NormalizeWn(inav.gnss_wn, inav.gnss_tow)
                    tow == FixTow(tow0, last_tow_mod_30)
                    g == GstNew(wn, tow)
                    fixed == IF NeedsTowFix(tow0, last_tow_mod_30)
                             THEN <<LogLine("debug", "fix_tow", inav.gnss_sv, 0, <<>>)>>
                             ELSE <<>>
                IN  /\ last_tow_mod_30' = LastTowMod30(tow)
                    /\ gst' = <<g>>
                    /\ seen' = IF seen = <<>> THEN <<WordBoundary(p)>>
                               ELSE <<GstMax(seen[1], WordBoundary(p))>>
                    /\ IF IsPreviousSubframe(current_subframe, g)
                       THEN /\ log' = fixed \o <<LogLine("warn", "previous_subframe",
                                                         inav.gnss_sv, 0, <<>>)>>
                            /\ calls' = <<>>
                            /\ UNCHANGED <<current_subframe, ced_and_status_data,
                                           timing_parameters, osnma>>
                       ELSE /\ current_subframe' = Advance(g)
                            /\ IF InavBand(sigid) = <<>>
                               THEN /\ log' = fixed \o <<LogLine("error", "non_inav_band",
                                                                 inav.gnss_sv, 0, <<>>)>>
                                    /\ calls' = <<>>
                                    /\ UNCHANGED <<ced_and_status_data, timing_parameters,
                                                   osnma>>
                               ELSE IF IsDummy(inav.contents)
                               THEN /\ log' = fixed \o <<LogLine("debug", "dummy",
                                                                 inav.gnss_sv, 0, <<>>)>>
                                    /\ calls' = <<>>
                                    /\ UNCHANGED <<ced_and_status_data, timing_parameters,
                                                   osnma>>
                               ELSE \E o1 \in Feed(osnma, CedB, TimB) :
                                    \E o2 \in (IF inav.reserved1 = <<>> THEN {o1}
                                               ELSE Feed(o1, CedB, TimB)) :
                                        /\ osnma' = o2
                                        /\ calls' = Pushes(inav, g, InavBand(sigid))
                                        /\ ced_and_status_data' =
                                             [s \in Svns |-> Snapshot(ced_and_status_data[s],
                                                                      CedBuffer(o2, s))]
                                        /\ timing_parameters' =
                                             [s \in Svns |-> Snapshot(timing_parameters[s],
                                                                      TimingBuffer(o2, s))]
                                        /\ log' = fixed \o PollLog(o2, ced_and_status_data,
                                                                   timing_parameters,
                                                                   Cardinality(Svns))
                    /\ reached' = reached \cup {current_subframe'[i] : i \in 1..Len(current_subframe')}
        /\ fresh' =
             {t \in {"ced", "timing"} \X Svns \X BOOLEAN :
                LET old == IF t[1] = "ced" THEN ced_and_status_data[t[2]]
                           ELSE timing_parameters[t[2]]
                    data == IF t[1] = "ced" THEN osnma'.ced[t[2]] ELSE osnma'.timing[t[2]]
                    buf == IF t[1] = "ced" THEN CedBufferOf[data[1].pat]
                           ELSE TimingBufferOf[data[1].pat]
                IN  /\ calls' # <<>>
                    /\ data # <<>>
                    /\ t[3] = (old # <<>>)
                    /\ old # <<buf>>}

\* The blocks the engine can come to authenticate in the main specification.
CedBlocks == {[pat |-> 2, authbits |-> 40]}

TimingBlocks == {}

Next == Iterate(Packets, CedBlocks, TimingBlocks) /\ UNCHANGED trail

Spec == Init /\ [][Next]_vars

\* The specification of the poll: few packets, and an engine that can come to
\* authenticate blocks that differ in their data or only in their authbits.
PollCedBlocks ==
    {[pat |-> 2, authbits |-> 40], [pat |-> 2, authbits |-> 80], [pat |-> 3, authbits |-> 40]}

PollTimingBlocks == {[pat |-> 2, authbits |-> 40], [pat |-> 3, authbits |-> 40]}

NextPoll == Iterate(PollPackets, PollCedBlocks, PollTimingBlocks) /\ UNCHANGED trail

SpecPoll == Init /\ [][NextPoll]_vars

\* The specification of the synchronizer: the loop on a few words of three
\* frames of one week, valid and discarded ones, with the last two messages
\* kept in trail.
SyncPackets ==
    {Other,
     Inav(1176, 15, 1, <<1>>, DataWord, <<>>),
     Inav(1176, 19, 2, <<1>>, DataWord, <<>>),
     Inav(1176, 45, 2, <<1>>, DummyWord, <<Payload>>),
     Inav(1176, 45, 1, <<2>>, DataWord, <<>>),
     Inav(1176, 45, 1, <<>>, DataWord, <<>>),
     Inav(1176, 75, 2, <<5>>, DataWord, <<Payload>>)}

\* What trail keeps of an iteration: its packet, its log lines, and whether
\* it moved the watermark.
Track ==
    trail' = <<[packet |-> packet', log |-> log',
                moved |-> current_subframe' # current_subframe]>>
             \o (IF trail = <<>> THEN <<>> ELSE <<trail[1]>>)

NextSync == Iterate(SyncPackets, CedBlocks, TimingBlocks) /\ Track

SpecSync == Init /\ [][NextSync]_vars

-----------------------------------------------------------------------------
(* The derivation of chain keys: a key built by from_slice, and               *)
(* one_way_function applied to it and to what it returns.                     *)

InitChain ==
    /\ MainInit
    /\ ExtractIdle
    /\ \E slice \in KeySlices, wn \in KeyWns, tow \in KeyTows :
           key = from_slice(slice, GstNew(wn, tow))
    /\ params \in ChainParams
    /\ overflow_checks \in BOOLEAN
    /\ status = "ok"
    /\ nderived = 0

Derive ==
    /\ status = "ok"
    /\ nderived < MaxDerive
    /\ nderived' = nderived + 1
    /\ IF one_way_function_panics(key, params, overflow_checks)
       THEN status' = "panic" /\ key' = key
       ELSE status' = "ok" /\ key' = one_way_function(key, params)
    /\ UNCHANGED <<params, overflow_checks>>
    /\ UNCHANGED mainVars
    /\ UNCHANGED extractVars

NextChain == Derive

SpecChain == InitChain /\ [][NextChain]_vars

-----------------------------------------------------------------------------
(* The life of a chain key: a call of from_slice or from_bitslice, which     *)
(* builds the key or panics, and then one_way_function applied to the key    *)
(* and to what it returns.                                                   *)

\* The arguments of the two constructors: the slices of KeySlices, the empty
\* slice and one of 33 bytes; bit slices of 0, 8, 12, 128, 256 and 264 bits;
\* anchors on and off a frame boundary.
BuildSlices == KeySlices \cup {<<>>, [i \in 1..33 |-> i]}

BuildBitSlices == {BlockData(2, n) : n \in {0, 8, 12, 128, 256, 264}}

BuildGsts == {GstNew(wn, tow) : wn \in {0, 1176}, tow \in {0, 30, 45, 604770}}

InitKey ==
    /\ MainInit
    /\ ExtractIdle
    /\ key = from_slice(<<>>, GstNew(0, 0))
    /\ params \in ChainParams
    /\ overflow_checks \in BOOLEAN
    /\ status = "none"
    /\ nderived = 0

BuildFromSlice ==
    /\ status = "none"
    /\ \E slice \in BuildSlices, g \in BuildGsts :
           IF from_slice_panics(slice, g)
           THEN status' = "panic" /\ key' = key
           ELSE status' = "ok" /\ key' = from_slice(slice, g)
    /\ UNCHANGED <<params, overflow_checks, nderived>>
    /\ UNCHANGED mainVars
    /\ UNCHANGED extractVars

BuildFromBitslice ==
    /\ status = "none"
    /\ \E slice \in BuildBitSlices, g \in BuildGsts :
           IF from_bitslice_panics(slice, g)
           THEN status' = "panic" /\ key' = key
           ELSE status' = "ok" /\ key' = from_bitslice(slice, g)
    /\ UNCHANGED <<params, overflow_checks, nderived>>
    /\ UNCHANGED mainVars
    /\ UNCHANGED extractVars

NextKey == BuildFromSlice \/ BuildFromBitslice \/ Derive

SpecKey == InitKey /\ [][NextKey]_vars

-----------------------------------------------------------------------------
(* The extraction functions on their own: a call of extract_bits_range or of *)
(* extract_all_bits on a buffer.  A buffer is given by the bits it is packed *)
(* from, most significant bit of each byte first, and its length in bytes.   *)

\* The bits of the buffers: the two blocks of the poll (549 bits in 69 bytes),
\* 552 ones, a pattern without a period of 8 bits, and 40 bits in 5 bytes.
ExtractBuffers ==
    {[bits |-> BlockData(2, CedBits), nbytes |-> CedBytes],
     [bits |-> BlockData(3, CedBits), nbytes |-> CedBytes],
     [bits |-> [i \in 1..(8 * CedBytes) |-> 1], nbytes |-> CedBytes],
     [bits |-> [i \in 1..(8 * CedBytes) |-> IF (i * i) % 7 < 3 THEN 1 ELSE 0],
      nbytes |-> CedBytes],
     [bits |-> [i \in 1..40 |-> IF (i * i) % 5 < 2 THEN 1 ELSE 0], nbytes |-> 5]}

\* The (start, end) of the calls: those of extract_all_bits and others, of one
\* bit to 32 bits, inside one byte and across bytes.
ExtractRanges ==
    {Descriptors[n] : n \in DOMAIN Descriptors}
        \cup {<<0, 0>>, <<0, 31>>, <<7, 8>>, <<3, 34>>, <<8, 39>>, <<39, 39>>,
              <<33, 39>>, <<520, 551>>, <<551, 551>>}

InitExtract ==
    /\ MainInit
    /\ ChainIdle
    /\ extract_value = <<>>
    /\ \/ \E b \in ExtractBuffers, r \in ExtractRanges :
            /\ r[2] < 8 * b.nbytes
            /\ extract_args = [op |-> "extract_bits_range", bits |-> b.bits,
                               nbytes |-> b.nbytes, start |-> r[1], end |-> r[2]]
       \/ \E b \in ExtractBuffers :
            /\ b.nbytes = CedBytes
            /\ extract_args = [op |-> "extract_all_bits", bits |-> b.bits,
                               nbytes |-> b.nbytes]

ExtractRange ==
    /\ extract_args.op = "extract_bits_range"
    /\ extract_value = <<>>
    /\ extract_value' =
          <<extract_bits_range(Materialize(extract_args.bits, extract_args.nbytes),
                               extract_args.start, extract_args.end)>>
    /\ UNCHANGED <<extract_args, mainVars, chainVars>>

ExtractAll ==
    /\ extract_args.op = "extract_all_bits"
    /\ extract_value = <<>>
    /\ extract_value' =
          <<extract_all_bits(Materialize(extract_args.bits, extract_args.nbytes))>>
    /\ UNCHANGED <<extract_args, mainVars, chainVars>>

NextExtract == ExtractRange \/ ExtractAll

SpecExtract == InitExtract /\ [][NextExtract]_vars

-----------------------------------------------------------------------------
(* What the last iteration did *)

\* The packet held a word with a band identifier: the loop body ran.
Presented == gst # <<>>

Logged(l, what) == \E i \in DOMAIN l : l[i].what = what

HasBand(p) == p.gi # <<>> /\ p.gi[1].sigid # <<>>

KnownBand(p) == HasBand(p) /\ p.gi[1].sigid[1] \in {1, 5}

WordType(p) == p.gi[1].contents[1] \div 4

\* The word is of a subframe strictly earlier than the watermark w.
Earlier(p, w) == w # <<>> /\ GstLt(WordBoundary(p), w[1])

\* The time of week mod 30 that is recorded for a packet, given the value
\* recorded before it.
RecordedTow(p, last) ==
    LET tow == p.gi[1].gnss_tow % 604800
    IN  IF tow % 30 = 15 /\ last >= 19 THEN 29 ELSE tow % 30

NumReports(l, what, svn) ==
    Cardinality({i \in DOMAIN l : l[i].what = what /\ l[i].svn = svn})

-----------------------------------------------------------------------------
(* C1: monotonic rejection.  Once the watermark has had the value B, every    *)
(* word presented afterwards whose subframe boundary is strictly earlier      *)
(* than B is rejected: it is logged as a word of a previous subframe, no      *)
(* engine call is made for it and the engine is left as it was, whichever     *)
(* satellite or band the word comes from.                                     *)
C1_MonotonicRejection ==
    [][\A B \in reached :
          (HasBand(packet') /\ GstLt(WordBoundary(packet'), B))
              => /\ Logged(log', "previous_subframe")
                 /\ calls' = <<>>
                 /\ osnma' = osnma]_vars

\* A word of the other satellite and band than the one that set the watermark
\* has been rejected for a boundary earlier than a former watermark.
C1_Witness ==
    /\ Presented
    /\ Logged(log, "previous_subframe")
    /\ packet.gi[1].gnss_sv = 2
    /\ \E B \in reached : B # current_subframe[1] /\ GstLt(WordBoundary(packet), B)

(* C2: the watermark never moves backward.  A word that is not earlier than   *)
(* the watermark sets it to the word's boundary (which leaves it unchanged    *)
(* when the two are equal, and the word is not rejected as stale), and in     *)
(* every state the watermark is the highest subframe boundary of the words    *)
(* seen so far.                                                               *)
C2_WatermarkIsHighest ==
    [][/\ current_subframe' = seen'
       /\ current_subframe # <<>>
            => /\ current_subframe' # <<>>
               /\ ~GstLt(current_subframe'[1], current_subframe[1])
       /\ (HasBand(packet') /\ ~Earlier(packet', current_subframe))
            => /\ current_subframe' = <<WordBoundary(packet')>>
               /\ ~Logged(log', "previous_subframe")]_vars

\* The watermark has advanced twice and a word of its very subframe has been
\* accepted and fed.
C2_Witness ==
    /\ Cardinality(reached) >= 3
    /\ Presented
    /\ WordBoundary(packet) = current_subframe[1]
    /\ calls # <<>>

(* C3, as stated: a word rejected for a boundary strictly earlier than the    *)
(* current subframe mutates no state, the recorded last TOW mod 30 included.  *)
C3_Original ==
    [][(HasBand(packet') /\ Earlier(packet', current_subframe))
          => UNCHANGED <<current_subframe, last_tow_mod_30, ced_and_status_data,
                         timing_parameters, osnma>>]_vars

(* C3, amended: such a word leaves the watermark, both caches and the engine  *)
(* as they were and makes no engine call; the recorded last TOW mod 30 is set *)
(* to the word's corrected TOW mod 30.                                        *)
C3_StaleWordMutatesOnlyLastTow ==
    [][(HasBand(packet') /\ Earlier(packet', current_subframe))
          => /\ UNCHANGED <<current_subframe, ced_and_status_data,
                            timing_parameters, osnma>>
             /\ calls' = <<>>
             /\ last_tow_mod_30' = RecordedTow(packet', last_tow_mod_30)]_vars

\* A stale word has been rejected while the engine and a cache held a block.
C3_Witness ==
    /\ Presented
    /\ Earlier(packet, current_subframe)
    /\ Logged(log, "previous_subframe")
    /\ \E s \in Svns : osnma.ced[s] # <<>> /\ ced_and_status_data[s] # <<>>

(* C4, as stated: a word whose band identifier is neither 1 nor 5 mutates no *)
(* state: the watermark, the recorded last TOW mod 30, both caches and the    *)
(* engine are unchanged by it.                                                *)
C4_Original ==
    [][(HasBand(packet') /\ ~KnownBand(packet'))
          => UNCHANGED <<current_subframe, last_tow_mod_30, ced_and_status_data,
                         timing_parameters, osnma>>]_vars

(* C4, amended: such a word is skipped: no engine call is made, both caches   *)
(* and the engine are unchanged and no report is written.  But the recorded   *)
(* last TOW mod 30 is set to the word's corrected TOW mod 30 and, unless the  *)
(* word is of an earlier subframe than the watermark, the watermark is set to *)
(* the word's boundary and the error line is written.                         *)
C4_UnknownBandSkipsEngine ==
    [][(HasBand(packet') /\ ~KnownBand(packet'))
          => /\ UNCHANGED <<ced_and_status_data, timing_parameters, osnma>>
             /\ calls' = <<>>
             /\ ~Logged(log', "ced") /\ ~Logged(log', "timing")
             /\ last_tow_mod_30' = RecordedTow(packet', last_tow_mod_30)
             /\ IF Earlier(packet', current_subframe)
                THEN /\ current_subframe' = current_subframe
                     /\ ~Logged(log', "non_inav_band")
                ELSE /\ current_subframe' = <<WordBoundary(packet')>>
                     /\ log'[Len(log')].what = "non_inav_band"
                     /\ log'[Len(log')].level = "error"]_vars

\* A word on band 2 has been skipped with the error line after it moved the
\* watermark to a later subframe.
C4_Witness ==
    /\ Presented
    /\ packet.gi[1].sigid = <<2>>
    /\ Logged(log, "non_inav_band")
    /\ calls = <<>>
    /\ current_subframe = <<WordBoundary(packet)>>
    /\ Cardinality(reached) >= 2

(* C5: dummy rejection.  A word of type 63 (the top six bits of its first     *)
(* byte) causes no call of feed_inav or feed_osnma and leaves both caches of  *)
(* every satellite and the engine as they were; a word of another type that   *)
(* passed the subframe and band screens is passed to feed_inav as it was      *)
(* read, with its satellite, its Gst and its band.                            *)
C5_DummyRejection ==
    [][/\ (HasBand(packet') /\ WordType(packet') = 63)
            => /\ calls' = <<>>
               /\ UNCHANGED <<ced_and_status_data, timing_parameters, osnma>>
       /\ (/\ KnownBand(packet')
           /\ WordType(packet') # 63
           /\ ~Earlier(packet', current_subframe))
            => /\ calls' # <<>>
               /\ calls'[1] = Call("feed_inav", packet'.gi[1].contents,
                                   packet'.gi[1].gnss_sv, gst'[1],
                                   IF packet'.gi[1].sigid = <<1>> THEN <<"E1B">>
                                   ELSE <<"E5B">>)]_vars

\* A dummy word with a payload, on an INAV band and of the current subframe,
\* has been discarded while the engine held a block.
C5_Witness ==
    /\ Presented
    /\ KnownBand(packet)
    /\ WordType(packet) = 63
    /\ packet.gi[1].reserved1 # <<>>
    /\ Logged(log, "dummy")
    /\ calls = <<>>
    /\ \E s \in Svns : osnma.ced[s] # <<>>

(* C8: TOW self-correction.  For each word the TOW of the Gst that is built   *)
(* is the normalized TOW plus 14 if the normalized TOW mod 30 is 15 and the   *)
(* TOW mod 30 recorded before the word is at least 19, and the normalized TOW *)
(* itself in every other case.                                                *)
C8_TowCorrection ==
    [][HasBand(packet')
          => LET tow == packet'.gi[1].gnss_tow % 604800
             IN  /\ gst' # <<>>
                 /\ gst'[1].tow = IF tow % 30 = 15 /\ last_tow_mod_30 >= 19
                                  THEN tow + 14 ELSE tow
                 /\ Logged(log', "fix_tow") <=> (tow % 30 = 15 /\ last_tow_mod_30 >= 19)]_vars

\* A word with TOW mod 30 = 15 has been corrected to TOW + 14.
C8_Witness ==
    /\ Presented
    /\ Logged(log, "fix_tow")
    /\ (packet.gi[1].gnss_tow % 604800) % 30 = 15
    /\ gst[1].tow = (packet.gi[1].gnss_tow % 604800) + 14
    /\ last_tow_mod_30 = 29

(* C9: time normalization.  For every raw (week, TOW) the Gst that is built   *)
(* has the raw week plus raw TOW div 604800 as its week and a TOW in          *)
(* [0, 604800) that is raw TOW mod 604800 or, corrected, that plus 14.        *)
C9_TimeNormalization ==
    HasBand(packet)
        => /\ gst # <<>>
           /\ gst[1].wn = packet.gi[1].gnss_wn + packet.gi[1].gnss_tow \div 604800
           /\ gst[1].tow >= 0 /\ gst[1].tow < 604800
           /\ gst[1].tow - (packet.gi[1].gnss_tow % 604800) \in {0, 14}
           /\ Logged(log, "fix_tow") <=> gst[1].tow # packet.gi[1].gnss_tow % 604800

\* A raw TOW past the end of the week has been folded into the next week and
\* then corrected by 14 seconds.
C9_Witness ==
    /\ Presented
    /\ packet.gi[1].gnss_tow >= 604800
    /\ gst[1].wn = packet.gi[1].gnss_wn + 1
    /\ Logged(log, "fix_tow")

-----------------------------------------------------------------------------
(* The poll.  The engine changes only inside an iteration that feeds it, and  *)
(* that iteration polls it: in every state the blocks of osnma are what the   *)
(* last poll was given.                                                       *)

\* The iteration fed the engine and polled it.
Polled(c) == c # <<>> /\ c[Len(c)].op = "poll"

\* The bytes of the buffer a block is materialized into, <<>> when the engine
\* returns no block; kind is "ced" or "timing".
BufferOf(o, kind, svn) ==
    LET data == IF kind = "ced" THEN o.ced[svn] ELSE o.timing[svn]
    IN  IF data = <<>> THEN <<>>
        ELSE IF kind = "ced"
             THEN <<CedBufferOf[data[1].pat]>>
             ELSE <<TimingBufferOf[data[1].pat]>>

CacheOf(cedc, timc, kind, svn) == IF kind = "ced" THEN cedc[svn] ELSE timc[svn]

Kinds == {"ced", "timing"}

(* C6: dedup idempotence.  When the engine returns for a satellite and kind   *)
(* the same byte buffer on two consecutive polls, the second poll emits no    *)
(* report for it and leaves its snapshot equal to it, and the two polls       *)
(* together emit at most one report for it: exactly one when the buffer       *)
(* differed from the snapshot held before the first of the two polls.  So a   *)
(* poll of a block whose buffer the poll before was given never reports it.   *)
C6_DedupIdempotence ==
    [][Polled(calls')
          => \A kind \in Kinds, s \in Svns :
                (/\ BufferOf(osnma', kind, s) # <<>>
                 /\ BufferOf(osnma', kind, s) = BufferOf(osnma, kind, s))
                  => /\ NumReports(log', kind, s) = 0
                     /\ CacheOf(ced_and_status_data', timing_parameters', kind, s)
                            = BufferOf(osnma', kind, s)
                     /\ Polled(calls)
                          => NumReports(log, kind, s) + NumReports(log', kind, s) =
                                (IF \E had \in BOOLEAN : <<kind, s, had>> \in fresh
                                 THEN 1 ELSE 0)]_vars

\* The engine has been polled again while it held blocks of both kinds, one of
\* them with its data unchanged but its authbits changed, and nothing was
\* reported.
C6_Witness ==
    /\ Polled(calls)
    /\ log = <<>>
    /\ fresh = {}
    /\ \E s \in Svns :
        /\ osnma.ced[s] = <<[pat |-> 2, authbits |-> 80]>>
        /\ osnma.timing[s] # <<>>

(* C7: on each poll, for every satellite and kind for which the engine        *)
(* returns a block, exactly one report is emitted if the cached snapshot is   *)
(* absent or differs from the block's 69 or 18 byte buffer, and none          *)
(* otherwise; after the poll the snapshot is that buffer; only the reports of *)
(* the CED and status kind carry extracted fields, those of the buffer; and   *)
(* a snapshot that is set is never reset to empty, in any step.               *)
C7_ReportIffNew ==
    [][/\ \A kind \in Kinds, s \in Svns :
            CacheOf(ced_and_status_data, timing_parameters, kind, s) # <<>>
                => CacheOf(ced_and_status_data', timing_parameters', kind, s) # <<>>
       /\ Polled(calls')
            => /\ \A kind \in Kinds, s \in Svns :
                    LET buf == BufferOf(osnma', kind, s)
                        old == CacheOf(ced_and_status_data, timing_parameters, kind, s)
                        new == CacheOf(ced_and_status_data', timing_parameters', kind, s)
                    IN  IF buf = <<>>
                        THEN NumReports(log', kind, s) = 0 /\ new = old
                        ELSE /\ Len(buf[1]) = (IF kind = "ced" THEN 69 ELSE 18)
                             /\ NumReports(log', kind, s) =
                                    (IF old = <<>> \/ old[1] # buf[1] THEN 1 ELSE 0)
                             /\ new = buf
               /\ \A i \in DOMAIN log' :
                    /\ log'[i].what = "ced"
                         => log'[i].data = <<FieldsOf[osnma'.ced[log'[i].svn][1].pat]>>
                    /\ log'[i].what = "timing" => log'[i].data = <<>>]_vars

\* A poll has reported a CED and status block that overwrote a different
\* snapshot, while another snapshot outlives the block the engine dropped.
C7_Witness ==
    /\ Polled(calls)
    /\ \E s \in Svns :
        /\ NumReports(log, "ced", s) = 1
        /\ osnma.ced[s][1].pat = 3
        /\ <<"ced", s, TRUE>> \in fresh
    /\ \E s \in Svns, kind \in Kinds :
        /\ BufferOf(osnma, kind, s) = <<>>
        /\ CacheOf(ced_and_status_data, timing_parameters, kind, s) # <<>>

-----------------------------------------------------------------------------
(* C10: chain derivation is defined.  For a key anchored at any frame with    *)
(* TOW mod 30 = 0 and a week of the 12-bit range, and parameters with a hash  *)
(* function that is not the reserved one, one_way_function returns a key and  *)
(* so does one_way_function applied to that key: neither call panics.         *)
C10_ChainDefined ==
    (/\ params.hash # "Reserved"
     /\ key.gst_subframe.tow % 30 = 0
     /\ nderived <= 2)
        => status = "ok"

-----------------------------------------------------------------------------
(* C11: anchor arithmetic of the chain step.  With a hash function that is   *)
(* not the reserved one, one_way_function returns a key whose anchor is      *)
(* {W, t - 30} for the anchor {W, t} with t > 0 and {W - 1, 604770} for the  *)
(* anchor {W, 0}: every step moves the anchor 30 seconds earlier on the      *)
(* (week, TOW) timeline, and so n steps move it 30 * n seconds earlier.      *)
C11_AnchorArithmetic ==
    [][(nderived' = nderived + 1 /\ params.hash # "Reserved")
          => /\ status' = "ok"
             /\ key'.gst_subframe =
                    IF key.gst_subframe.tow > 0
                    THEN [wn |-> key.gst_subframe.wn, tow |-> key.gst_subframe.tow - 30]
                    ELSE [wn |-> key.gst_subframe.wn - 1, tow |-> 604770]]_vars

(* C12: reserved-hash fatality.  With the reserved hash function every call  *)
(* of one_way_function aborts, whatever the key, and no derived key comes    *)
(* out of it.                                                                *)
C12_ReservedAborts ==
    [][(nderived' = nderived + 1 /\ params.hash = "Reserved")
          => /\ status' = "panic"
             /\ key' = key]_vars

\* The derivation of a key of 32 bytes, anchored where the week does not
\* underflow, has aborted on the reserved hash function.
C12_Witness ==
    /\ status = "panic"
    /\ nderived = 1
    /\ params.hash = "Reserved"
    /\ key.size = 256
    /\ key.gst_subframe.tow > 0

(* C13: chain-key invariant.  Every key that comes to exist, built by        *)
(* from_slice or from_bitslice or returned by one_way_function after any     *)
(* number of steps, has a bit length that is a multiple of 8 and at most 256 *)
(* and an anchor with TOW mod 30 = 0, and a derived key has the bit length   *)
(* of the key it was derived from.                                           *)
C13_KeyInvariant ==
    [][status' = "ok"
          => /\ key'.size % 8 = 0
             /\ key'.size <= 256
             /\ key'.gst_subframe.tow % 30 = 0
             /\ nderived' = nderived + 1 => key'.size = key.size]_vars

\* A key of one byte, which only from_bitslice builds, has been derived from
\* the first frame of week 1176 into the last frame of week 1175.
C13_Witness ==
    /\ status = "ok"
    /\ nderived = 1
    /\ key.size = 8
    /\ key.gst_subframe = [wn |-> 1175, tow |-> 604770]

-----------------------------------------------------------------------------
(* Bit i (counted from 0) of the buffer packed from bits, and the unsigned   *)
(* integer that bits from .. to of the buffer spell, most significant first. *)
BitAt(bits, i) == IF i + 1 <= Len(bits) THEN bits[i + 1] ELSE 0

RECURSIVE UnsignedOf(_, _, _)
UnsignedOf(bits, from, to) ==
    IF to < from THEN 0
    ELSE BitAt(bits, from) * Pow2(to - from) + UnsignedOf(bits, from + 1, to)

\* The same integer in two halves: its low 16 bits, and the bits above them.
HalvesOf(bits, start, end) ==
    [hi |-> UnsignedOf(bits, start, end - 16),
     lo |-> UnsignedOf(bits, IF end - 15 > start THEN end - 15 ELSE start, end)]

(* C14: extraction correctness.  For a buffer and (start, end) with          *)
(* start <= end, end inside the buffer and at most 32 bits,                  *)
(* extract_bits_range returns the unsigned integer that bits start .. end of *)
(* the buffer spell, most significant bit first, bit i being bit             *)
(* 7 - (i mod 8) of byte i div 8; and every field of extract_all_bits is     *)
(* that integer for its descriptor, which has start <= end, at most 32 bits  *)
(* and an end below 552, the bits of the 69-byte block.                      *)
C14_ExtractionCorrect ==
    extract_value # <<>>
        => IF extract_args.op = "extract_bits_range"
           THEN (/\ extract_args.start <= extract_args.end
                 /\ extract_args.end - extract_args.start < 32)
                    => extract_value[1] =
                          HalvesOf(extract_args.bits, extract_args.start, extract_args.end)
           ELSE /\ DOMAIN extract_value[1] = DOMAIN Descriptors
                /\ \A n \in DOMAIN Descriptors :
                      /\ Descriptors[n][1] <= Descriptors[n][2]
                      /\ Descriptors[n][2] - Descriptors[n][1] < 32
                      /\ Descriptors[n][2] < 8 * 69
                      /\ extract_value[1][n] =
                            HalvesOf(extract_args.bits, Descriptors[n][1], Descriptors[n][2])

\* 32 bits that start inside a byte have been extracted, with bits set in
\* both halves of the value and bits clear in both.
C14_Witness ==
    /\ extract_value # <<>>
    /\ extract_args.op = "extract_bits_range"
    /\ extract_args.end - extract_args.start = 31
    /\ extract_args.start % 8 # 0
    /\ extract_value[1].hi \notin {0, 65535}
    /\ extract_value[1].lo \notin {0, 65535}
    /\ extract_value[1].hi # extract_value[1].lo

-----------------------------------------------------------------------------
\* The number of lines of severity level in l.
NumLevel(l, level) == Cardinality({i \in DOMAIN l : l[i].level = level})

(* C15, as stated: every INAV word without a recognized band identifier, be  *)
(* the identifier missing or neither 1 nor 5, is rejected with a diagnostic  *)
(* of error severity, is never fed to the engine and triggers no poll and no *)
(* report.                                                                   *)
C15_Original ==
    [][(packet'.gi # <<>> /\ ~KnownBand(packet'))
          => /\ NumLevel(log', "error") >= 1
             /\ calls' = <<>>
             /\ ~Logged(log', "ced") /\ ~Logged(log', "timing")]_vars

(* C15, amended: such a word is never fed to the engine and triggers no poll *)
(* and no report, and both caches and the engine are unchanged.  A word      *)
(* whose identifier is missing is skipped without any diagnostic and without *)
(* any change of state.  A word whose identifier is neither 1 nor 5 gets the *)
(* diagnostic of error severity only if it is not of an earlier subframe     *)
(* than the watermark; if it is, it gets the warning of a stale word and no  *)
(* diagnostic of error severity.                                             *)
C15_UnrecognizedBandDiagnostics ==
    [][(packet'.gi # <<>> /\ ~KnownBand(packet'))
          => /\ calls' = <<>>
             /\ ~Logged(log', "ced") /\ ~Logged(log', "timing")
             /\ UNCHANGED <<ced_and_status_data, timing_parameters, osnma>>
             /\ IF ~HasBand(packet')
                THEN /\ log' = <<>>
                     /\ UNCHANGED <<current_subframe, last_tow_mod_30>>
                ELSE IF Earlier(packet', current_subframe)
                THEN /\ NumLevel(log', "error") = 0
                     /\ NumLevel(log', "warn") = 1
                     /\ Logged(log', "previous_subframe")
                ELSE /\ NumLevel(log', "error") = 1
                     /\ NumLevel(log', "warn") = 0
                     /\ Logged(log', "non_inav_band")]_vars

\* A word of week 1177 without a band identifier has been skipped without a
\* diagnostic, the watermark staying in week 1176.
C15_Witness ==
    /\ packet.gi # <<>>
    /\ packet.gi[1].sigid = <<>>
    /\ packet.gi[1].gnss_wn = 1177
    /\ log = <<>>
    /\ calls = <<>>
    /\ current_subframe # <<>>
    /\ current_subframe[1].wn = 1176

-----------------------------------------------------------------------------
\* The positions of the calls of op in c.
CallsOf(c, op) == {i \in DOMAIN c : c[i].op = op}

(* C16: pipeline ordering.  Within the iteration of a message, before the    *)
(* next one is read: a word is fed to the engine only if it passed the       *)
(* subframe screen, the band match and the dummy filter, and then feed_inav  *)
(* of that word is the first call; a payload is fed only right after the     *)
(* word it came with, with the same satellite and Gst; the poll happens      *)
(* exactly once, as the last call, after the push; and a rejected word       *)
(* causes no feed, no poll and no report and leaves the engine as it was.    *)
C16_PipelineOrdering ==
    [][LET passed == /\ KnownBand(packet')
                     /\ ~Earlier(packet', current_subframe)
                     /\ WordType(packet') # 63
       IN  IF passed
           THEN LET inav == packet'.gi[1]
                    n == Len(calls')
                IN  /\ CallsOf(calls', "feed_inav") = {1}
                    /\ calls'[1].arg = inav.contents
                    /\ calls'[1].svn = inav.gnss_sv
                    /\ calls'[1].gst = gst'[1]
                    /\ CallsOf(calls', "feed_osnma") =
                          (IF inav.reserved1 = <<>> THEN {} ELSE {2})
                    /\ inav.reserved1 # <<>>
                          => /\ calls'[2].arg = inav.reserved1[1]
                             /\ calls'[2].svn = inav.gnss_sv
                             /\ calls'[2].gst = gst'[1]
                    /\ CallsOf(calls', "poll") = {n}
                    /\ n = (IF inav.reserved1 = <<>> THEN 2 ELSE 3)
           ELSE /\ calls' = <<>>
                /\ osnma' = osnma
                /\ ~Logged(log', "ced") /\ ~Logged(log', "timing")]_vars

\* A word with a payload has been fed, then its payload, and the poll that
\* followed has reported a block.
C16_Witness ==
    /\ Len(calls) = 3
    /\ calls[1].op = "feed_inav"
    /\ calls[2].op = "feed_osnma"
    /\ calls[3].op = "poll"
    /\ Logged(log, "ced")

-----------------------------------------------------------------------------
\* The two keys and the parameters of the test of tesla.rs.
Key42b4 == <<66, 180, 25, 218, 106, 218, 28, 10, 61, 111, 86, 165, 229, 220, 89, 167>>

Key9542 == <<149, 66, 170, 212, 122, 191, 57, 186, 254, 86, 104, 97, 175, 232, 128, 178>>

TestChain == [hash |-> "Sha256", alpha |-> <<0, 0, 37, 211, 150, 77, 163, 162>>]

(* C17, as stated: with SHA-256 and alpha 0x25d3964da3a2, the 128-bit key    *)
(* 42b419da6ada1c0a3d6f56a5e5dc59a7 anchored at week 1176, TOW 120960        *)
(* derives to the key 9542aad47abf39bafe566861afe880b2 anchored at week      *)
(* 1176, TOW 120930.                                                         *)
C17_Original ==
    [][(/\ nderived' = nderived + 1
        /\ params = TestChain
        /\ key = from_slice(Key42b4, GstNew(1176, 120960)))
          => /\ status' = "ok"
             /\ key' = from_slice(Key9542, GstNew(1176, 120930))]_vars

(* C17, amended: the two keys are the other way round.  With SHA-256 and     *)
(* alpha 0x25d3964da3a2, the 128-bit key 9542aad47abf39bafe566861afe880b2    *)
(* anchored at week 1176, TOW 120960 derives to the key                      *)
(* 42b419da6ada1c0a3d6f56a5e5dc59a7 anchored at week 1176, TOW 120930, equal *)
(* in bytes, bit length and anchor.                                          *)
C17_TestVector ==
    [][(/\ nderived' = nderived + 1
        /\ params = TestChain
        /\ key = from_slice(Key9542, GstNew(1176, 120960)))
          => /\ status' = "ok"
             /\ key' = from_slice(Key42b4, GstNew(1176, 120930))]_vars

\* One application of one_way_function with SHA-256 has returned the key
\* 42b4... anchored at week 1176, TOW 120930.
C17_Witness ==
    /\ status = "ok"
    /\ nderived = 1
    /\ params = TestChain
    /\ key = from_slice(Key42b4, GstNew(1176, 120930))

-----------------------------------------------------------------------------
(* C18: the TOW correction never changes a word's subframe boundary.  For    *)
(* every word, corrected or not, the boundary of the Gst that is built is    *)
(* the boundary of the word's normalized TOW (for a TOW that is 15 mod 30,   *)
(* TOW + 14 is 29 mod 30, in the same frame); so the word is rejected as     *)
(* stale exactly when that boundary is earlier than the watermark, and       *)
(* otherwise the watermark becomes that boundary, whether or not the         *)
(* correction fired.                                                         *)
C18_CorrectionKeepsBoundary ==
    [][HasBand(packet')
          => LET tow == packet'.gi[1].gnss_tow % 604800
                 g == gst'[1]
             IN  /\ tow % 30 = 15 => (tow + 14) - ((tow + 14) % 30) = tow - (tow % 30)
                 /\ [wn |-> g.wn, tow |-> g.tow - (g.tow % 30)] = WordBoundary(packet')
                 /\ Logged(log', "previous_subframe") <=> Earlier(packet', current_subframe)
                 /\ ~Earlier(packet', current_subframe)
                       => current_subframe' = <<WordBoundary(packet')>>
                 /\ Earlier(packet', current_subframe)
                       => current_subframe' = current_subframe]_vars

\* A corrected word, with a Gst at 29 mod 30, has been accepted and fed, and
\* the watermark is the boundary of its uncorrected TOW.
C18_Witness ==
    /\ Presented
    /\ Logged(log, "fix_tow")
    /\ gst[1].tow % 30 = 29
    /\ calls # <<>>
    /\ current_subframe = <<WordBoundary(packet)>>
    /\ Cardinality(reached) >= 2

-----------------------------------------------------------------------------
\* The word of p is discarded after the subframe screen: it is on a band that
\* is no INAV band, or it is a dummy message.
Discarded(p) == HasBand(p) /\ (~KnownBand(p) \/ WordType(p) = 63)

(* C19: the watermark is advanced before the band match and the dummy        *)
(* filter.  A dummy word or a word with sigid other than 1 and 5 that is not *)
(* of an earlier subframe than the watermark sets the watermark to its       *)
(* boundary, although no engine call is made for it; and when the message    *)
(* before was such a word, a valid word on an INAV band whose boundary is    *)
(* earlier than that of the discarded word is rejected as stale.             *)
C19_DiscardedWordAdvances ==
    [][/\ (Discarded(packet') /\ ~Earlier(packet', current_subframe))
            => /\ current_subframe' = <<WordBoundary(packet')>>
               /\ calls' = <<>>
               /\ osnma' = osnma
               /\ Logged(log', "dummy") \/ Logged(log', "non_inav_band")
       /\ (/\ Discarded(packet)
           /\ Logged(log, "dummy") \/ Logged(log, "non_inav_band")
           /\ KnownBand(packet')
           /\ WordType(packet') # 63
           /\ GstLt(WordBoundary(packet'), WordBoundary(packet)))
            => /\ current_subframe = <<WordBoundary(packet)>>
               /\ Logged(log', "previous_subframe")
               /\ calls' = <<>>
               /\ current_subframe' = current_subframe]_vars

\* A discarded word has moved the watermark to a later subframe, and the next
\* message, a valid word of the subframe the watermark was in before, has been
\* rejected as stale.
C19_Witness ==
    /\ Len(trail) = 2
    /\ Discarded(trail[2].packet)
    /\ trail[2].moved
    /\ KnownBand(packet) /\ WordType(packet) # 63
    /\ trail[1].packet = packet
    /\ Logged(log, "previous_subframe")
    /\ reached = {WordBoundary(packet), WordBoundary(trail[2].packet)}
    /\ current_subframe = <<WordBoundary(trail[2].packet)>>
    /\ GstLt(WordBoundary(packet), current_subframe[1])

-----------------------------------------------------------------------------
(* C20: the recorded last TOW mod 30 is one value for all satellites.  It is *)
(* 0 until the first message with a band identifier; every such message,     *)
(* the ones rejected afterwards included, sets it to its corrected TOW mod   *)
(* 30, and a message without one leaves it alone.  Hence the first message   *)
(* is never corrected; a correction leaves 29 recorded; and while 29 is      *)
(* recorded, as it is right after a correction, every message with TOW mod   *)
(* 30 = 15 is corrected as well, whatever its satellite and subframe.        *)
C20_SharedLastTow ==
    [][/\ seen = <<>> => last_tow_mod_30 = 0
       /\ ~HasBand(packet') => last_tow_mod_30' = last_tow_mod_30
       /\ HasBand(packet')
            => LET tow == packet'.gi[1].gnss_tow % 604800
                   corrected == Logged(log', "fix_tow")
               IN  /\ last_tow_mod_30' = gst'[1].tow % 30
                   /\ last_tow_mod_30' = (IF corrected THEN 29 ELSE tow % 30)
                   /\ seen = <<>> => ~corrected
                   /\ (Logged(log, "fix_tow") /\ tow % 30 = 15) => corrected
                   /\ (last_tow_mod_30 = 29 /\ tow % 30 = 15) => corrected]_vars

\* A word has been corrected right after a word of another satellite and
\* another subframe was corrected, and both were rejected as stale.
C20_Witness ==
    /\ Len(trail) = 2
    /\ trail[1].packet = packet
    /\ Logged(trail[2].log, "fix_tow")
    /\ Logged(log, "fix_tow")
    /\ Logged(trail[2].log, "previous_subframe")
    /\ Logged(log, "previous_subframe")
    /\ trail[2].packet.gi[1].gnss_sv # packet.gi[1].gnss_sv
    /\ WordBoundary(trail[2].packet) # WordBoundary(packet)
    /\ last_tow_mod_30 = 29

-----------------------------------------------------------------------------
(* What a key says: its key bytes, the first size / 8 of the buffer, its bit *)
(* length and its anchor.                                                    *)
LogicalKey(k) ==
    [bytes |-> Take(k.data, k.size \div 8),
     size |-> k.size,
     gst_subframe |-> k.gst_subframe]

\* #[derive(Eq, PartialEq)]: the fields data, size and gst_subframe agree.
KeyEq(k1, k2) ==
    /\ AsSeq(k1.data) = AsSeq(k2.data)
    /\ k1.size = k2.size
    /\ k1.gst_subframe = k2.gst_subframe

\* The keys the two constructors build from the inputs of SpecKey.
BuiltKeys ==
    {from_slice(x[1], x[2]) :
        x \in {y \in BuildSlices \X BuildGsts : ~from_slice_panics(y[1], y[2])}}
    \cup {from_bitslice(x[1], x[2]) :
        x \in {y \in BuildBitSlices \X BuildGsts : ~from_bitslice_panics(y[1], y[2])}}

\* The keys one_way_function returns on them, the week before week 0 wrapped.
DerivedKeys ==
    {one_way_function(k, p) :
        k \in BuiltKeys, p \in {q \in ChainParams : q.hash # "Reserved"}}

\* The keys from_slice builds from the key bytes and the anchor of those.
RebuiltKeys ==
    {from_slice(Take(k.data, k.size \div 8), k.gst_subframe) : k \in DerivedKeys}

OtherKeys == BuiltKeys \cup DerivedKeys \cup RebuiltKeys

(* C21: key padding and equality.  In every key, built by from_slice or      *)
(* from_bitslice or returned by one_way_function, the buffer has 32 bytes    *)
(* and every byte beyond the first size / 8 is zero; and the key equals, in  *)
(* buffer, bit length and anchor, a key that a constructor builds or that    *)
(* one_way_function returns exactly when the two agree in key bytes, bit     *)
(* length and anchor.                                                        *)
C21_PaddingAndEquality ==
    status = "ok"
        => /\ Len(AsSeq(key.data)) = MAX_KEY_BYTES
           /\ \A i \in (key.size \div 8 + 1)..MAX_KEY_BYTES : key.data[i] = 0
           /\ \A k2 \in OtherKeys :
                  KeyEq(key, k2) <=> LogicalKey(key) = LogicalKey(k2)

\* A key of 16 bytes returned by one_way_function, with key bytes that are
\* not zero, equals the key from_slice builds from its key bytes and its
\* anchor, and differs from a key of the same bit length and anchor that has
\* other key bytes.
C21_Witness ==
    /\ status = "ok"
    /\ nderived = 1
    /\ key.size = 128
    /\ \E i \in 1..16 : key.data[i] # 0
    /\ \E k2 \in RebuiltKeys : KeyEq(key, k2)
    /\ \E k2 \in OtherKeys :
          /\ ~KeyEq(key, k2)
          /\ k2.size = key.size
          /\ k2.gst_subframe = key.gst_subframe

====
